---- MODULE Spec2Model ----
(***************************************************************************)
(* Order workflow of the craftculture backend (routes/orderRouter.js):     *)
(* order creation with stock reservation and compensating rollback, order  *)
(* status transitions with stock restoration on cancellation, and the      *)
(* per-user order listing.  Every await of a handler is a step of its own. *)
(***************************************************************************)
EXTENDS Integers, Sequences, FiniteSets, TLC

\* ------------------------------------------------------------------ bounds

\* Largest stock a product starts with; no new creation starts above it.
MaxQty == 2
\* Number of orders the order store may hold.
MaxOrders == 1
\* Largest value of the clock.
MaxNow == 1
\* Number of store operations that fail in a run.
MaxFaults == 1

\* ------------------------------------------------------------- strings

\* Strings are sequences of one-character strings.
IsSpace(ch) == ch = " "

RECURSIVE TrimStart(_)
TrimStart(s) ==
  IF s # <<>> /\ IsSpace(Head(s)) THEN TrimStart(Tail(s)) ELSE s

RECURSIVE TrimEnd(_)
TrimEnd(s) ==
  IF s # <<>> /\ IsSpace(s[Len(s)]) THEN TrimEnd(SubSeq(s, 1, Len(s) - 1)) ELSE s

\* String.prototype.trim
Trim(s) == TrimEnd(TrimStart(s))

LowerChar(ch) ==
  CASE ch = "A" -> "a"
    [] ch = "B" -> "b"
    [] OTHER -> ch

\* String.prototype.toLowerCase
ToLowerCase(s) == [i \in 1..Len(s) |-> LowerChar(s[i])]

IsDigit(ch) == ch \in {"0", "1", "2", "3", "4", "5", "6", "7", "8", "9"}

\* [^\s@]
NotSpaceAt(ch) == ~IsSpace(ch) /\ ch # "@"

\* /^[^\s@]+@[^\s@]+\.[^\s@]+$/
EmailRegexTest(s) ==
  \E i \in 1..Len(s) : \E j \in 1..Len(s) :
    /\ 1 < i /\ i + 1 < j /\ j < Len(s)
    /\ s[i] = "@" /\ s[j] = "."
    /\ \A k \in (1..Len(s)) \ {i, j} : NotSpaceAt(s[k])

\* [\d\s-()]
PhoneChar(ch) == IsDigit(ch) \/ IsSpace(ch) \/ ch \in {"-", "(", ")"}

\* /^\+?[\d\s-()]{8,}$/
PhoneRegexTest(s) ==
  LET body == IF s # <<>> /\ Head(s) = "+" THEN Tail(s) ELSE s
  IN  /\ Len(body) >= 8
      /\ \A k \in 1..Len(body) : PhoneChar(body[k])

\* ------------------------------------------------------------- amounts

\* Money is counted in units of 0.005: 200 units make 1.00.
AmountScale == 200
Amount(n) == n * AmountScale
\* The tolerance 0.01 of the total check, in units.
Tolerance == AmountScale \div 100

\* -------------------------------------------------------------- the store

\* Ids of the products the catalog holds, and an id no product has.
ProductIds == {1, 2}
MissingId == Cardinality(ProductIds) + 1

ProductStatuses == {"Available", "Not Available"}
\* OrderStatuses with a status that is not listed.
OrderStatusesWithReturned ==
  {"Pending", "Processing", "Shipped", "Delivered", "Cancelled", "Returned"}
OrderStatuses == {"Pending", "Processing", "Shipped", "Delivered", "Cancelled"}

\* Catalog price and offer (per cent) of every product.
CatalogPrice == Amount(100)
CatalogOffer == 10

\* deliveryDate.setDate(deliveryDate.getDate() + 5), in days.
DeliveryDays == 5

VARIABLES
  products,   \* Product collection: id -> [quantity, status, price, offer]
  orders,     \* Order collection: the order with _id k is orders[k]
  now,        \* the clock read by new Date(), in days
  pc,         \* per call: the await the handler is suspended at
  req,        \* per call: the request (body and parameters)
  idx,        \* per call: position of the item loop
  pdoc,       \* per call: the product document held by the handler
  odoc,       \* per call: the order document held by the handler
  err,        \* per call: message of the error caught by the handler
  res,        \* per call: the response sent
  hist,       \* per call: what the call did so far (store at its start, counters)
  faults,     \* number of store operations that are still going to fail
  sent        \* per order: the request body its creation was sent with

vars == <<products, orders, now, pc, req, idx, pdoc, odoc, err, res, hist, faults,
          sent>>

Calls == {1, 2}


\* ------------------------------------------------------- store operations

NoProduct == [quantity |-> 0, status |-> "", price |-> 0, offer |-> 0]
NoPDoc == [id |-> 0, read |-> NoProduct, cur |-> NoProduct]

\* Product.findById: the document, or null (the empty sequence).
FindProduct(id) == IF id \in DOMAIN products THEN <<products[id]>> ELSE <<>>

\* A document as its handler holds it: the values read and the values now set.
Loaded(id, p) == [id |-> id, read |-> p, cur |-> p]

\* ProductSaved that is not durable: the store keeps what it held.
ProductSavedLost(d) == products

\* ProductSaved as an atomic update: the change of the quantity is added to
\* the stored quantity.
ProductSavedAtomic(d) ==
  [products EXCEPT ![d.id] =
     [@ EXCEPT !.quantity = @ + (d.cur.quantity - d.read.quantity),
               !.status = IF d.cur.status # d.read.status
                          THEN d.cur.status ELSE @]]

\* product.save(): mongoose writes the paths whose value differs from the
\* value loaded, and nothing else.
ProductSaved(d) ==
  [products EXCEPT ![d.id] =
     [@ EXCEPT !.quantity = IF d.cur.quantity # d.read.quantity
                            THEN d.cur.quantity ELSE @,
               !.status = IF d.cur.status # d.read.status
                          THEN d.cur.status ELSE @]]

\* A save changes something to write, and then needs the document in the store.
ProductSavable(d) == d.cur = d.read \/ d.id \in DOMAIN products

\* Order.findById
FindOrder(id) == IF id \in 1..Len(orders) THEN <<orders[id]>> ELSE <<>>

\* ------------------------------------------------------ validateOrderInput

\* validateOrderInput without its phone check.
validateOrderInputNoPhone(body) ==
  IF \/ Trim(body.username) = <<>>
     \/ Trim(body.fullName) = <<>>
     \/ Trim(body.email) = <<>>
     \/ Trim(body.phone) = <<>>
    THEN "Customer information is incomplete"
  ELSE IF Len(body.items) = 0
    THEN "Order must contain at least one item"
  ELSE IF body.totalAmount <= 0
    THEN "Invalid total amount"
  ELSE IF \/ body.address.street = <<>>
          \/ body.address.city = <<>>
          \/ body.address.state = <<>>
          \/ body.address.postalCode = <<>>
    THEN "Shipping address is incomplete"
  ELSE IF body.paymentMethod \notin {"Online", "COD"}
    THEN "Invalid payment method"
  ELSE IF ~EmailRegexTest(body.email)
    THEN "Invalid email format"
  ELSE "next"

\* The check the middleware answers 400 with, or "next".
validateOrderInput(body) ==
  IF \/ Trim(body.username) = <<>>
     \/ Trim(body.fullName) = <<>>
     \/ Trim(body.email) = <<>>
     \/ Trim(body.phone) = <<>>
    THEN "Customer information is incomplete"
  ELSE IF Len(body.items) = 0
    THEN "Order must contain at least one item"
  ELSE IF body.totalAmount <= 0
    THEN "Invalid total amount"
  ELSE IF \/ body.address.street = <<>>
          \/ body.address.city = <<>>
          \/ body.address.state = <<>>
          \/ body.address.postalCode = <<>>
    THEN "Shipping address is incomplete"
  ELSE IF body.paymentMethod \notin {"Online", "COD"}
    THEN "Invalid payment method"
  ELSE IF ~EmailRegexTest(body.email)
    THEN "Invalid email format"
  ELSE IF ~PhoneRegexTest(body.phone)
    THEN "Invalid phone number format"
  ELSE "next"

\* --------------------------------------------------- POST / : reservation

\* ReservationError without its stock check.
ReservationErrorNoStockCheck(found, item) ==
  IF found = <<>> THEN "Product not found"
  ELSE IF found[1].status # "Available" THEN "Product is currently not available"
  ELSE IF found[1].price # item.price \/ found[1].offer # item.offer
    THEN "Price or offer mismatch"
  ELSE ""

\* ReservationError without its price and offer check.
ReservationErrorNoPriceCheck(found, item) ==
  IF found = <<>> THEN "Product not found"
  ELSE IF found[1].status # "Available" THEN "Product is currently not available"
  ELSE IF found[1].quantity < item.quantity THEN "Insufficient stock"
  ELSE ""

\* The error the reservation loop throws for an item, or "" when it passes.
\* found is the result of Product.findById(item._id).
ReservationError(found, item) ==
  IF found = <<>> THEN "Product not found"
  ELSE IF found[1].status # "Available" THEN "Product is currently not available"
  ELSE IF found[1].quantity < item.quantity THEN "Insufficient stock"
  ELSE IF found[1].price # item.price \/ found[1].offer # item.offer
    THEN "Price or offer mismatch"
  ELSE ""

\* ReserveStock that takes the item's quantity twice.
ReserveStockTwice(p, item) ==
  LET q == p.quantity - 2 * item.quantity
  IN  [p EXCEPT !.quantity = q,
                !.status = IF q = 0 THEN "Not Available" ELSE @]

\* product.quantity -= item.quantity; status Not Available at 0.
ReserveStock(p, item) ==
  LET q == p.quantity - item.quantity
  IN  [p EXCEPT !.quantity = q,
                !.status = IF q = 0 THEN "Not Available" ELSE @]

\* RestoreStock with the rule of the cancellation: Available whatever the
\* quantity.
RestoreStockForcesAvailable(p, item) ==
  [p EXCEPT !.quantity = @ + item.quantity, !.status = "Available"]

\* The compensation step of the catch block.
RestoreStock(p, item) ==
  LET q == p.quantity + item.quantity
  IN  [p EXCEPT !.quantity = q,
                !.status = IF q > 0 THEN "Available" ELSE @]

\* ------------------------------------------------ POST / : total and order

\* items.reduce(...): 100 times the sum of price * quantity less the discount,
\* which keeps the division by 100 out of the integers.
RECURSIVE calculatedTotal100(_)
calculatedTotal100(items) ==
  IF items = <<>> THEN 0
  ELSE LET item == Head(items)
           price == item.price * item.quantity
           discount100 == price * item.offer
       IN  (100 * price - discount100) + calculatedTotal100(Tail(items))

AbsInt(x) == IF x < 0 THEN -x ELSE x

\* Math.abs(calculatedTotal - totalAmount) compared with 0.01 is a comparison
\* of binary64 values.  Neither 0.01 nor a total ending in .01 or .99 is a
\* binary64 value, so a difference of exactly 0.01 compares as the rounding
\* of the operands falls: for a calculated total of 90.00 the nearest values
\* to 89.99 and 90.01 lie 0.010000000000005116 away (above the nearest value
\* to 0.01), for the multiples of 90.00 from 180.00 to 720.00 and for 0 they
\* lie at most 0.01 away.
RoundsAboveTolerance(calc100) == calc100 = 100 * Amount(90)

\* TotalMismatch without Math.abs.
TotalMismatchSigned(items, totalAmount) ==
  calculatedTotal100(items) - 100 * totalAmount > 100 * Tolerance

\* Math.abs(calculatedTotal - totalAmount) > 0.01
TotalMismatch(items, totalAmount) ==
  LET d == AbsInt(calculatedTotal100(items) - 100 * totalAmount)
  IN  \/ d > 100 * Tolerance
      \/ d = 100 * Tolerance /\ RoundsAboveTolerance(calculatedTotal100(items))

\* NewOrder without toLowerCase on the email.
NewOrderKeepsCase(body, t) ==
  [username |-> Trim(body.username),
   fullName |-> Trim(body.fullName),
   email |-> Trim(body.email),
   phone |-> Trim(body.phone),
   items |-> body.items,
   totalAmount |-> body.totalAmount,
   address |-> body.address,
   paymentMethod |-> body.paymentMethod,
   deliveryDate |-> t + DeliveryDays,
   status |-> "Pending",
   orderDate |-> t,
   trackingNumber |-> <<>>,
   notes |-> <<>>]

\* NewOrder without the five days added to the delivery date.
NewOrderDeliveredNow(body, t) ==
  [username |-> Trim(body.username),
   fullName |-> Trim(body.fullName),
   email |-> ToLowerCase(Trim(body.email)),
   phone |-> Trim(body.phone),
   items |-> body.items,
   totalAmount |-> body.totalAmount,
   address |-> body.address,
   paymentMethod |-> body.paymentMethod,
   deliveryDate |-> t,
   status |-> "Pending",
   orderDate |-> t,
   trackingNumber |-> <<>>,
   notes |-> <<>>]

\* new Order({...}) of the create handler, at clock t.
NewOrder(body, t) ==
  [username |-> Trim(body.username),
   fullName |-> Trim(body.fullName),
   email |-> ToLowerCase(Trim(body.email)),
   phone |-> Trim(body.phone),
   items |-> body.items,
   totalAmount |-> body.totalAmount,
   address |-> body.address,
   paymentMethod |-> body.paymentMethod,
   deliveryDate |-> t + DeliveryDays,
   status |-> "Pending",
   orderDate |-> t,
   trackingNumber |-> <<>>,
   notes |-> <<>>]

NoAddress == [street |-> <<>>, city |-> <<>>, state |-> <<>>, postalCode |-> <<>>]
NoOrder == NewOrder([username |-> <<>>, fullName |-> <<>>, email |-> <<>>,
                     phone |-> <<>>, items |-> <<>>, totalAmount |-> 0,
                     address |-> NoAddress, paymentMethod |-> ""], 0)
NoODoc == [id |-> 0, read |-> NoOrder, cur |-> NoOrder]


\* ------------------------------------------------------------- per call

NoReq == [kind |-> "none"]
NoRes == [code |-> 0, message |-> "", orderId |-> 0, estimatedDelivery |-> 0,
          orders |-> <<>>]
Reply(code, message) == [NoRes EXCEPT !.code = code, !.message = message]

\* What a call did so far: the store and the clock as the call found them,
\* whether it read or wrote the store, whether a store operation of it failed,
\* the number of items whose reservation it saved, and the restorations its
\* catch block attempted, each with the position of its item and its outcome.
NoHist == [products |-> <<>>, orders |-> <<>>, at |-> 0, read |-> FALSE,
           wrote |-> FALSE, failed |-> FALSE, reserved |-> 0, restores |-> <<>>]
StartHist == [NoHist EXCEPT !.products = products, !.orders = orders, !.at = now]

\* A restoration attempt of the catch block: "restored", "skipped" (no such
\* product) or "error" (the read or the save rejected).
Attempt(i, outcome) == [item |-> i, outcome |-> outcome]

CreatePcs == {"reserveFind", "reserveSave", "orderSave", "restoreFind", "restoreSave"}

\* Creations under way that have not answered yet.
CreatesInFlight == Cardinality({d \in Calls : pc[d] \in CreatePcs})

\* A product of the catalog as PATCH /:id/stock leaves it: Available iff in stock.
CatalogProduct(q) ==
  [quantity |-> q, status |-> IF q > 0 THEN "Available" ELSE "Not Available",
   price |-> CatalogPrice, offer |-> CatalogOffer]

\* No order yet, and no call under way.
InitCalls ==
  /\ orders = <<>>
  /\ now = 0
  /\ pc = [c \in Calls |-> "idle"]
  /\ req = [c \in Calls |-> NoReq]
  /\ idx = [c \in Calls |-> 0]
  /\ pdoc = [c \in Calls |-> NoPDoc]
  /\ odoc = [c \in Calls |-> NoODoc]
  /\ err = [c \in Calls |-> ""]
  /\ res = [c \in Calls |-> NoRes]
  /\ hist = [c \in Calls |-> NoHist]
  /\ sent = <<>>

\* The catalog as PATCH /:id/stock leaves it.
InitStore ==
  /\ \E stock \in [ProductIds -> 0..MaxQty] :
       products = [p \in ProductIds |-> CatalogProduct(stock[p])]
  /\ InitCalls

\* A product as POST /products stores it: any quantity >= 0 with either status.
ListedProduct(q, status) == [CatalogProduct(q) EXCEPT !.status = status]

\* The catalog as POST /products leaves it, with a store whose operations all
\* succeed.
InitListed ==
  /\ \E stock \in [ProductIds -> 0..MaxQty] :
       \E st \in [ProductIds -> ProductStatuses] :
         products = [p \in ProductIds |-> ListedProduct(stock[p], st[p])]
  /\ InitCalls
  /\ faults = 0

\* After construction; MaxFaults store operations are going to fail.
Init == InitStore /\ faults = MaxFaults

\* A store operation of call c fails (the awaited promise rejects).
StoreFails(c) ==
  /\ faults > 0
  /\ faults' = faults - 1
  /\ hist' = [hist EXCEPT
       ![c].failed = TRUE,
       ![c].restores = IF pc[c] \in {"restoreFind", "restoreSave"}
                         THEN Append(@, Attempt(idx[c], "error")) ELSE @]

\* After construction, with a store whose operations all succeed.
InitNoFaults == InitStore /\ faults = 0

\* Time passes.
Tick ==
  /\ now < MaxNow
  /\ now' = now + 1
  /\ UNCHANGED <<products, orders, pc, req, idx, pdoc, odoc, err, res, hist, faults,
               sent>>

\* The response is sent and the call is over.
Finish(c) ==
  /\ pc[c] = "done"
  /\ pc' = [pc EXCEPT ![c] = "idle"]
  /\ req' = [req EXCEPT ![c] = NoReq]
  /\ idx' = [idx EXCEPT ![c] = 0]
  /\ pdoc' = [pdoc EXCEPT ![c] = NoPDoc]
  /\ odoc' = [odoc EXCEPT ![c] = NoODoc]
  /\ err' = [err EXCEPT ![c] = ""]
  /\ res' = [res EXCEPT ![c] = NoRes]
  /\ hist' = [hist EXCEPT ![c] = NoHist]
  /\ UNCHANGED <<products, orders, now, faults, sent>>

\* No call that may add stock starts once a product holds more than MaxQty.
StockBounded == \A p \in DOMAIN products : products[p].quantity <= MaxQty

\* ------------------------------------------------------- POST / : handler

\* POST / arrives: validateOrderInput answers 400, or the handler starts and
\* is suspended at the first Product.findById.
PostOrder(c, body) ==
  /\ pc[c] = "idle"
  /\ req' = [req EXCEPT ![c] = [kind |-> "create", body |-> body]]
  /\ hist' = [hist EXCEPT ![c] = StartHist]
  /\ IF validateOrderInput(body) = "next"
       THEN /\ pc' = [pc EXCEPT ![c] = "reserveFind"]
            /\ idx' = [idx EXCEPT ![c] = 1]
            /\ res' = res
       ELSE /\ pc' = [pc EXCEPT ![c] = "done"]
            /\ idx' = idx
            /\ res' = [res EXCEPT ![c] = Reply(400, validateOrderInput(body))]
  /\ UNCHANGED <<products, orders, now, pdoc, odoc, err, faults, sent>>

\* POST / while the order store has room for the order.
StartCreate(c, body) ==
  /\ validateOrderInput(body) = "next" =>
       /\ Len(orders) + CreatesInFlight < MaxOrders
       /\ StockBounded
  /\ PostOrder(c, body)

\* throw inside the try block: the catch block starts its restore loop.
Throw(c, message) ==
  /\ err' = [err EXCEPT ![c] = message]
  /\ idx' = [idx EXCEPT ![c] = 1]
  /\ pc' = [pc EXCEPT ![c] = "restoreFind"]
  /\ pdoc' = [pdoc EXCEPT ![c] = NoPDoc]

\* await Product.findById(item._id) of the reservation loop and the checks
\* that follow it.
ReserveFind(c) ==
  /\ pc[c] = "reserveFind"
  /\ LET item == req[c].body.items[idx[c]]
         found == FindProduct(item._id)
     IN  \/ /\ StoreFails(c)
            /\ Throw(c, "storage error")
         \/ /\ ReservationError(found, item) # ""
            /\ Throw(c, ReservationError(found, item))
            /\ hist' = [hist EXCEPT ![c].read = TRUE]
            /\ faults' = faults
         \/ /\ ReservationError(found, item) = ""
            /\ pdoc' = [pdoc EXCEPT ![c] =
                 [Loaded(item._id, found[1]) EXCEPT !.cur = ReserveStock(found[1], item)]]
            /\ pc' = [pc EXCEPT ![c] = "reserveSave"]
            /\ hist' = [hist EXCEPT ![c].read = TRUE]
            /\ UNCHANGED <<idx, err, faults>>
  /\ UNCHANGED <<products, orders, now, req, odoc, res, sent>>

\* await product.save() of the reservation loop; after the last item the
\* total is verified and the order is built.
ReserveSave(c) ==
  /\ pc[c] = "reserveSave"
  /\ LET body == req[c].body
     IN  \/ /\ StoreFails(c)
            /\ Throw(c, "storage error")
            /\ UNCHANGED <<products, odoc>>
         \/ /\ ProductSavable(pdoc[c])
            /\ products' = ProductSaved(pdoc[c])
            /\ faults' = faults
            /\ hist' = [hist EXCEPT ![c].wrote = TRUE, ![c].reserved = @ + 1]
            /\ IF idx[c] < Len(body.items)
                 THEN /\ idx' = [idx EXCEPT ![c] = @ + 1]
                      /\ pc' = [pc EXCEPT ![c] = "reserveFind"]
                      /\ pdoc' = [pdoc EXCEPT ![c] = NoPDoc]
                      /\ UNCHANGED <<odoc, err>>
                 ELSE IF TotalMismatch(body.items, body.totalAmount)
                   THEN /\ Throw(c, "Total amount calculation mismatch")
                        /\ odoc' = odoc
                   ELSE /\ odoc' = [odoc EXCEPT ![c] =
                              [id |-> 0, read |-> NoOrder, cur |-> NewOrder(body, now)]]
                        /\ pc' = [pc EXCEPT ![c] = "orderSave"]
                        /\ pdoc' = [pdoc EXCEPT ![c] = NoPDoc]
                        /\ UNCHANGED <<idx, err>>
  /\ UNCHANGED <<orders, now, req, res, sent>>

\* await order.save() and the 201 response.
OrderSave(c) ==
  /\ pc[c] = "orderSave"
  /\ \/ /\ StoreFails(c)
        /\ Throw(c, "storage error")
        /\ UNCHANGED <<orders, res, sent>>
     \/ /\ orders' = Append(orders, odoc[c].cur)
        /\ sent' = Append(sent, req[c].body)
        /\ faults' = faults
        /\ res' = [res EXCEPT ![c] =
             [Reply(201, "Order created successfully") EXCEPT
                !.orderId = Len(orders) + 1,
                !.estimatedDelivery = odoc[c].cur.deliveryDate]]
        /\ pc' = [pc EXCEPT ![c] = "done"]
        /\ hist' = [hist EXCEPT ![c].wrote = TRUE]
        /\ UNCHANGED <<idx, err, pdoc>>
  /\ UNCHANGED <<products, now, req, odoc>>

\* RestoreAdvance that leaves the loop after the first attempt.
RestoreAdvanceStops(c) ==
  /\ pdoc' = [pdoc EXCEPT ![c] = NoPDoc]
  /\ idx' = idx
  /\ pc' = [pc EXCEPT ![c] = "done"]
  /\ res' = [res EXCEPT ![c] = Reply(400, err[c])]

\* The restore loop moves to its next item, or ends with the 400 response.
RestoreAdvance(c) ==
  /\ pdoc' = [pdoc EXCEPT ![c] = NoPDoc]
  /\ IF idx[c] < Len(req[c].body.items)
       THEN /\ idx' = [idx EXCEPT ![c] = @ + 1]
            /\ pc' = [pc EXCEPT ![c] = "restoreFind"]
            /\ res' = res
       ELSE /\ idx' = idx
            /\ pc' = [pc EXCEPT ![c] = "done"]
            /\ res' = [res EXCEPT ![c] = Reply(400, err[c])]

\* await Product.findById(item._id) of the catch block.
RestoreFind(c) ==
  /\ pc[c] = "restoreFind"
  /\ LET item == req[c].body.items[idx[c]]
         found == FindProduct(item._id)
     IN  \/ /\ StoreFails(c)
            /\ RestoreAdvance(c)
         \/ /\ found = <<>>
            /\ RestoreAdvance(c)
            /\ hist' = [hist EXCEPT
                 ![c].read = TRUE,
                 ![c].restores = Append(@, Attempt(idx[c], "skipped"))]
            /\ faults' = faults
         \/ /\ found # <<>>
            /\ pdoc' = [pdoc EXCEPT ![c] =
                 [Loaded(item._id, found[1]) EXCEPT !.cur = RestoreStock(found[1], item)]]
            /\ pc' = [pc EXCEPT ![c] = "restoreSave"]
            /\ hist' = [hist EXCEPT ![c].read = TRUE]
            /\ UNCHANGED <<idx, res, faults>>
  /\ UNCHANGED <<products, orders, now, req, odoc, err, sent>>

\* await product.save() of the catch block; its failure is logged only.
RestoreSave(c) ==
  /\ pc[c] = "restoreSave"
  /\ \/ /\ StoreFails(c)
        /\ RestoreAdvance(c)
        /\ UNCHANGED products
     \/ /\ ProductSavable(pdoc[c])
        /\ products' = ProductSaved(pdoc[c])
        /\ RestoreAdvance(c)
        /\ hist' = [hist EXCEPT
             ![c].wrote = TRUE,
             ![c].restores = Append(@, Attempt(idx[c], "restored"))]
        /\ faults' = faults
  /\ UNCHANGED <<orders, now, req, odoc, err, sent>>


\* ------------------------------------------- PATCH /:orderId/status : handler

\* CancelRestore that leaves the product Not Available when it was.
CancelRestoreKeepsStatus(p, item) == [p EXCEPT !.quantity = @ + item.quantity]

\* CancelRestore that leaves the quantity as it is.
CancelRestoreKeepsQuantity(p, item) == [p EXCEPT !.status = "Available"]

\* CancelRestore that overwrites the quantity with the item's instead of adding.
CancelRestoreOverwrites(p, item) ==
  [p EXCEPT !.quantity = item.quantity, !.status = "Available"]

\* product.quantity += item.quantity; product.status = "Available".
CancelRestore(p, item) ==
  [p EXCEPT !.quantity = @ + item.quantity, !.status = "Available"]

\* StatusUpdateRejection for which Delivered is final too.
StatusUpdateRejectionDeliveredFinal(found) ==
  IF found = <<>> THEN 404
  ELSE IF found[1].status \in {"Cancelled", "Delivered"} THEN 400
  ELSE 0

\* StatusUpdateRejection that answers 400 for an order that does not exist.
StatusUpdateRejectionNoNotFound(found) ==
  IF found = <<>> THEN 400
  ELSE IF found[1].status = "Cancelled" THEN 400
  ELSE 0

\* The status the handler answers with after Order.findById when it does not
\* go on: 404 for no order, 400 for a cancelled one, 0 when it goes on.
StatusUpdateRejection(found) ==
  IF found = <<>> THEN 404
  ELSE IF found[1].status = "Cancelled" THEN 400
  ELSE 0

RejectionMessage(code) ==
  IF code = 404 THEN "Order not found" ELSE "Cannot update status of cancelled order"

\* AssignStatus that leaves the delivery date alone.
AssignStatusKeepsEstimate(order, r, t) ==
  [order EXCEPT
     !.status = r.status,
     !.trackingNumber = IF r.trackingNumber # <<>> THEN Trim(r.trackingNumber) ELSE @,
     !.notes = IF r.notes # <<>> THEN Trim(r.notes) ELSE @]

\* The assignments to the order before order.save(), at clock t.
AssignStatus(order, r, t) ==
  [order EXCEPT
     !.status = r.status,
     !.trackingNumber = IF r.trackingNumber # <<>> THEN Trim(r.trackingNumber) ELSE @,
     !.notes = IF r.notes # <<>> THEN Trim(r.notes) ELSE @,
     !.deliveryDate = IF r.status = "Delivered" THEN t ELSE @]

\* OrderSaved as an update of every order of the store.
OrderSavedEverywhere(d) ==
  [k \in DOMAIN orders |-> [orders[k] EXCEPT !.status = d.cur.status]]

\* order.save(): the modified paths are written.
OrderSaved(d) ==
  [orders EXCEPT ![d.id] =
     [@ EXCEPT
        !.status = IF d.cur.status # d.read.status THEN d.cur.status ELSE @,
        !.trackingNumber = IF d.cur.trackingNumber # d.read.trackingNumber
                             THEN d.cur.trackingNumber ELSE @,
        !.notes = IF d.cur.notes # d.read.notes THEN d.cur.notes ELSE @,
        !.deliveryDate = IF d.cur.deliveryDate # d.read.deliveryDate
                           THEN d.cur.deliveryDate ELSE @]]

\* PATCH /:orderId/status arrives: an unlisted status is answered 400, or the
\* handler is suspended at Order.findById.
StartUpdate(c, r) ==
  /\ pc[c] = "idle"
  /\ StockBounded
  /\ req' = [req EXCEPT ![c] = r]
  /\ hist' = [hist EXCEPT ![c] = StartHist]
  /\ IF r.status \notin OrderStatuses
       THEN /\ pc' = [pc EXCEPT ![c] = "done"]
            /\ res' = [res EXCEPT ![c] = Reply(400, "Invalid order status")]
       ELSE /\ pc' = [pc EXCEPT ![c] = "orderFind"]
            /\ res' = res
  /\ UNCHANGED <<products, orders, now, idx, pdoc, odoc, err, faults, sent>>

\* The catch block of the status handler.
UpdateFails(c) ==
  /\ StoreFails(c)
  /\ pc' = [pc EXCEPT ![c] = "done"]
  /\ res' = [res EXCEPT ![c] = Reply(500, "Error updating order status")]

\* await Order.findById(req.params.orderId) and the checks that follow it.
OrderFind(c) ==
  /\ pc[c] = "orderFind"
  /\ LET found == FindOrder(req[c].orderId)
         code == StatusUpdateRejection(found)
     IN  \/ /\ UpdateFails(c)
            /\ UNCHANGED <<idx, odoc>>
         \/ /\ code # 0
            /\ pc' = [pc EXCEPT ![c] = "done"]
            /\ res' = [res EXCEPT ![c] = Reply(code, RejectionMessage(code))]
            /\ hist' = [hist EXCEPT ![c].read = TRUE]
            /\ UNCHANGED <<idx, odoc, faults>>
         \/ /\ code = 0
            /\ hist' = [hist EXCEPT ![c].read = TRUE]
            /\ UNCHANGED <<res, faults>>
            /\ IF req[c].status = "Cancelled" /\ found[1].status # "Cancelled"
                  /\ found[1].items # <<>>
                 THEN /\ odoc' = [odoc EXCEPT ![c] = Loaded(req[c].orderId, found[1])]
                      /\ idx' = [idx EXCEPT ![c] = 1]
                      /\ pc' = [pc EXCEPT ![c] = "cancelFind"]
                 ELSE /\ odoc' = [odoc EXCEPT ![c] =
                            [Loaded(req[c].orderId, found[1]) EXCEPT
                               !.cur = AssignStatus(found[1], req[c], now)]]
                      /\ idx' = idx
                      /\ pc' = [pc EXCEPT ![c] = "statusSave"]
  /\ UNCHANGED <<products, orders, now, req, pdoc, err, sent>>

\* The cancel loop moves to its next item, or the order is assigned its new
\* status and saved.
CancelAdvance(c) ==
  /\ pdoc' = [pdoc EXCEPT ![c] = NoPDoc]
  /\ IF idx[c] < Len(odoc[c].cur.items)
       THEN /\ idx' = [idx EXCEPT ![c] = @ + 1]
            /\ pc' = [pc EXCEPT ![c] = "cancelFind"]
            /\ odoc' = odoc
       ELSE /\ idx' = idx
            /\ pc' = [pc EXCEPT ![c] = "statusSave"]
            /\ odoc' = [odoc EXCEPT ![c].cur = AssignStatus(@, req[c], now)]

\* await Product.findById(item._id) of the cancel loop.
CancelFind(c) ==
  /\ pc[c] = "cancelFind"
  /\ LET item == odoc[c].cur.items[idx[c]]
         found == FindProduct(item._id)
     IN  \/ /\ UpdateFails(c)
            /\ UNCHANGED <<idx, pdoc, odoc>>
         \/ /\ found = <<>>
            /\ CancelAdvance(c)
            /\ hist' = [hist EXCEPT ![c].read = TRUE]
            /\ UNCHANGED <<res, faults>>
         \/ /\ found # <<>>
            /\ pdoc' = [pdoc EXCEPT ![c] =
                 [Loaded(item._id, found[1]) EXCEPT !.cur = CancelRestore(found[1], item)]]
            /\ pc' = [pc EXCEPT ![c] = "cancelSave"]
            /\ hist' = [hist EXCEPT ![c].read = TRUE]
            /\ UNCHANGED <<idx, odoc, res, faults>>
  /\ UNCHANGED <<products, orders, now, req, err, sent>>

\* await product.save() of the cancel loop.
CancelSave(c) ==
  /\ pc[c] = "cancelSave"
  /\ \/ /\ UpdateFails(c)
        /\ UNCHANGED <<products, idx, pdoc, odoc>>
     \/ /\ ProductSavable(pdoc[c])
        /\ products' = ProductSaved(pdoc[c])
        /\ CancelAdvance(c)
        /\ hist' = [hist EXCEPT ![c].wrote = TRUE]
        /\ UNCHANGED <<res, faults>>
  /\ UNCHANGED <<orders, now, req, err, sent>>

\* await order.save() and the 200 response.
StatusSave(c) ==
  /\ pc[c] = "statusSave"
  /\ \/ /\ UpdateFails(c)
        /\ UNCHANGED orders
     \/ /\ odoc[c].id \in 1..Len(orders)
        /\ orders' = OrderSaved(odoc[c])
        /\ pc' = [pc EXCEPT ![c] = "done"]
        /\ res' = [res EXCEPT ![c] =
             [Reply(200, "Order status updated successfully") EXCEPT
                !.orderId = odoc[c].id,
                !.orders = <<[id |-> odoc[c].id, doc |-> odoc[c].cur]>>]]
        /\ hist' = [hist EXCEPT ![c].wrote = TRUE]
        /\ faults' = faults
  /\ UNCHANGED <<products, now, req, idx, pdoc, odoc, err, sent>>

\* ------------------------------------------------ DELETE /products/:id

\* DELETE /products/:id for a product of the catalog: product.remove().
DeleteProduct(id) ==
  /\ id \in DOMAIN products
  /\ products' = [p \in DOMAIN products \ {id} |-> products[p]]
  /\ UNCHANGED <<orders, now, pc, req, idx, pdoc, odoc, err, res, hist, faults, sent>>

\* -------------------------------------------------- GET /:username : handler

\* sort("-orderDate"): x goes before the first document that is not later.
RECURSIVE InsertByDate(_, _)
InsertByDate(x, list) ==
  IF list = <<>> THEN <<x>>
  ELSE IF Head(list).doc.orderDate > x.doc.orderDate
    THEN <<Head(list)>> \o InsertByDate(x, Tail(list))
  ELSE <<x>> \o list

\* Order.find({username}).sort("-orderDate") over the orders 1..k, each
\* document with its _id.
RECURSIVE OrdersOf(_, _)
OrdersOf(username, k) ==
  IF k = 0 THEN <<>>
  ELSE IF orders[k].username # username THEN OrdersOf(username, k - 1)
  ELSE InsertByDate([id |-> k, doc |-> orders[k]], OrdersOf(username, k - 1))

\* GET /:username arrives and is suspended at Order.find.
StartList(c, username) ==
  /\ pc[c] = "idle"
  /\ req' = [req EXCEPT ![c] = [kind |-> "list", username |-> username]]
  /\ hist' = [hist EXCEPT ![c] = StartHist]
  /\ pc' = [pc EXCEPT ![c] = "list"]
  /\ UNCHANGED <<products, orders, now, idx, pdoc, odoc, err, res, faults, sent>>

\* await Order.find(...) and the response.
ListOrders(c) ==
  /\ pc[c] = "list"
  /\ pc' = [pc EXCEPT ![c] = "done"]
  /\ \/ /\ StoreFails(c)
        /\ res' = [res EXCEPT ![c] = Reply(500, "Error fetching orders")]
     \/ /\ res' = [res EXCEPT ![c] =
             [Reply(200, "") EXCEPT !.orders = OrdersOf(req[c].username, Len(orders))]]
        /\ hist' = [hist EXCEPT ![c].read = TRUE]
        /\ faults' = faults
  /\ UNCHANGED <<products, orders, now, req, idx, pdoc, odoc, err, sent>>


\* ------------------------------------------------------------------ inputs

\* Largest quantity of a cart item.
MaxItemQty == 2

Name == <<"a", "b">>
NamePadded == <<" ", "a", "b">>
Blank == <<" ">>
Email == <<"a", "@", "b", ".", "c">>
EmailUpper == <<"A", "@", "b", ".", "c">>
EmailNoDot == <<"a", "@", "b">>
Phone == <<"1", "2", "3", "4", "5", "6", "7", "8">>
PhonePadded == <<" ", "1", "2", "3", "4", "5", "6", "7">>
PhoneShort == <<"1", "2", "3">>
Address == [street |-> <<"s">>, city |-> <<"c">>, state |-> <<"t">>,
            postalCode |-> <<"4">>]

\* A cart item at the catalog's price and offer.
Item(id, q) == [_id |-> id, quantity |-> q, price |-> CatalogPrice,
                offer |-> CatalogOffer]

\* A request body that passes validation.
Body(items, totalAmount) ==
  [username |-> Name, fullName |-> Name, email |-> Email, phone |-> Phone,
   items |-> items, totalAmount |-> totalAmount, address |-> Address,
   paymentMethod |-> "COD"]

\* Bodies that fail one check of validateOrderInput each.
InvalidBodies ==
  LET b == Body(<<Item(1, 1)>>, Amount(90))
  IN  {[b EXCEPT !.username = Blank], [b EXCEPT !.fullName = <<>>],
       [b EXCEPT !.email = Blank], [b EXCEPT !.phone = <<>>],
       [b EXCEPT !.items = <<>>], [b EXCEPT !.totalAmount = 0],
       [b EXCEPT !.address.city = <<>>], [b EXCEPT !.address.postalCode = <<>>],
       [b EXCEPT !.paymentMethod = "Card"], [b EXCEPT !.email = EmailNoDot],
       [b EXCEPT !.phone = PhoneShort]}

\* Items of the stock scenarios: every quantity of the catalog's products, a
\* product that does not exist, a stale price and a stale offer.
StockItems ==
  {Item(id, q) : id \in ProductIds, q \in 0..MaxItemQty}
    \cup {Item(MissingId, 1),
          [Item(1, 1) EXCEPT !.price = Amount(50)],
          [Item(1, 1) EXCEPT !.offer = 0]}

\* Carts of the stock scenarios: every single item, and the carts of two items
\* that start with an item of product 1.
StockCarts ==
  {<<i>> : i \in StockItems}
    \cup {<<i, j>> : i \in {Item(1, 0), Item(1, 1)},
                     j \in {Item(id, q) : id \in ProductIds, q \in 1..MaxItemQty}
                             \cup {Item(MissingId, 1)}}

StockBodies ==
  {Body(cart, t) : cart \in StockCarts, t \in {Amount(90), Amount(180)}}
    \cup InvalidBodies

\* A status update request.
Update(orderId, status, trackingNumber, notes) ==
  [kind |-> "update", orderId |-> orderId, status |-> status,
   trackingNumber |-> trackingNumber, notes |-> notes]

StockUpdates ==
  {Update(id, st, <<>>, <<>>) :
     id \in 1..MaxOrders + 1, st \in OrderStatuses \cup {"Returned"}}
    \cup {Update(1, "Shipped", <<" ", "T">>, <<"n", " ">>)}

\* ---------------------------------------------------------- specifications

\* One call at a time over the stock scenarios.
NextSeq ==
  \/ \E body \in StockBodies : StartCreate(1, body)
  \/ ReserveFind(1)
  \/ ReserveSave(1)
  \/ OrderSave(1)
  \/ RestoreFind(1)
  \/ RestoreSave(1)
  \/ \E r \in StockUpdates : StartUpdate(1, r)
  \/ OrderFind(1)
  \/ CancelFind(1)
  \/ CancelSave(1)
  \/ StatusSave(1)
  \/ Finish(1)

SpecSeq == Init /\ [][NextSeq]_vars


\* Inputs of the concurrent runs: orders of product 1 alone and of both
\* products, one body that fails validation, every target status.
RaceBodies ==
  {Body(<<Item(1, 1)>>, Amount(90))}

RaceUpdates ==
  {Update(1, st, <<>>, <<>>) : st \in OrderStatuses \cup {"Returned"}}

\* Any interleaving of the steps of the calls.
Next ==
  \/ \E c \in Calls :
       \/ \E body \in RaceBodies : StartCreate(c, body)
       \/ ReserveFind(c)
       \/ ReserveSave(c)
       \/ OrderSave(c)
       \/ RestoreFind(c)
       \/ RestoreSave(c)
       \/ \E r \in RaceUpdates : StartUpdate(c, r)
       \/ OrderFind(c)
       \/ CancelFind(c)
       \/ CancelSave(c)
       \/ StatusSave(c)
       \/ Finish(c)

\* The calls race over product 1; product 2 is out of stock and the store's
\* operations all succeed.
InitRace == InitNoFaults /\ products[2].quantity = 0

Spec == InitRace /\ [][Next]_vars


\* Bodies of the total scenarios: one item of product 1, and every claimed
\* total within 0.02 of the item's total, in steps of 0.005.
TotalBodies ==
  {Body(<<Item(1, q)>>, Amount(90 * q) + d) :
     q \in 1..MaxItemQty, d \in (-2 * Tolerance)..(2 * Tolerance)}

\* One creation at a time over the total scenarios.
NextTotal ==
  \/ \E body \in TotalBodies : StartCreate(1, body)
  \/ ReserveFind(1)
  \/ ReserveSave(1)
  \/ OrderSave(1)
  \/ RestoreFind(1)
  \/ RestoreSave(1)
  \/ Finish(1)

SpecTotal == Init /\ [][NextTotal]_vars

\* Bodies of the round trip scenarios: customer fields with and without
\* surrounding blanks and capitals, either payment method.
RoundBodies ==
  {[Body(<<Item(1, 1)>>, Amount(90)) EXCEPT
      !.username = u, !.fullName = f, !.email = e, !.phone = ph,
      !.paymentMethod = pm] :
     u \in {Name, NamePadded}, f \in {Name, NamePadded}, e \in {Email, EmailUpper},
     ph \in {Phone, PhonePadded}, pm \in {"COD", "Online"}}

\* One call at a time: creations of the round trip scenarios and listings.
NextRound ==
  \/ \E body \in RoundBodies : StartCreate(1, body)
  \/ ReserveFind(1)
  \/ ReserveSave(1)
  \/ OrderSave(1)
  \/ RestoreFind(1)
  \/ RestoreSave(1)
  \/ \E u \in {Name, NamePadded} : StartList(1, u)
  \/ ListOrders(1)
  \/ Finish(1)

SpecRound == Init /\ [][NextRound]_vars

\* Bodies of the oversell scenarios: one item of product 1, correctly totalled.
OversellBodies ==
  {Body(<<Item(1, q)>>, Amount(90 * q)) : q \in 1..MaxItemQty}

\* POST / while fewer creations than calls have been accepted.
RaceCreate(c, body) ==
  /\ Len(orders) + CreatesInFlight < Cardinality(Calls)
  /\ StockBounded
  /\ PostOrder(c, body)

\* Any interleaving of the steps of two creations, one for each call.
NextOversell ==
  \E c \in Calls :
    \/ \E body \in OversellBodies : RaceCreate(c, body)
    \/ ReserveFind(c)
    \/ ReserveSave(c)
    \/ OrderSave(c)
    \/ RestoreFind(c)
    \/ RestoreSave(c)

SpecOversell == InitRace /\ [][NextOversell]_vars

\* Bodies of the mismatch scenarios: carts of one and two items, with a total
\* that is theirs and totals that are not.
MismatchBodies ==
  {Body(cart, t) :
     cart \in {<<Item(1, q)>> : q \in 0..MaxItemQty}
                \cup {<<Item(1, 1), Item(2, 1)>>, <<Item(1, 1), Item(1, 1)>>},
     t \in {Amount(90), Amount(180)}}

\* One creation at a time over the mismatch scenarios.
NextListed ==
  \/ \E body \in MismatchBodies : StartCreate(1, body)
  \/ ReserveFind(1)
  \/ ReserveSave(1)
  \/ OrderSave(1)
  \/ RestoreFind(1)
  \/ RestoreSave(1)
  \/ Finish(1)

SpecListed == InitListed /\ [][NextListed]_vars

\* Bodies of the deletion scenarios: orders of one product and of both.
GoneBodies ==
  {Body(<<Item(1, 1)>>, Amount(90)),
   Body(<<Item(1, 1), Item(2, 1)>>, Amount(180)),
   Body(<<Item(2, 1), Item(1, 1)>>, Amount(180))}

GoneUpdates == {Update(1, st, <<>>, <<>>) : st \in {"Shipped", "Cancelled"}}

\* One call at a time, with products deleted between the calls.
NextGone ==
  \/ \E body \in GoneBodies : StartCreate(1, body)
  \/ ReserveFind(1)
  \/ ReserveSave(1)
  \/ OrderSave(1)
  \/ RestoreFind(1)
  \/ RestoreSave(1)
  \/ \E r \in GoneUpdates : StartUpdate(1, r)
  \/ OrderFind(1)
  \/ CancelFind(1)
  \/ CancelSave(1)
  \/ StatusSave(1)
  \/ pc[1] = "idle" /\ \E id \in ProductIds : DeleteProduct(id)
  \/ Finish(1)

SpecGone == InitNoFaults /\ [][NextGone]_vars

\* One creation at a time over the total scenarios, while time passes.
NextClock ==
  \/ \E body \in TotalBodies : StartCreate(1, body)
  \/ ReserveFind(1)
  \/ ReserveSave(1)
  \/ OrderSave(1)
  \/ RestoreFind(1)
  \/ RestoreSave(1)
  \/ Tick
  \/ Finish(1)

SpecClock == Init /\ [][NextClock]_vars

\* Status updates of the delivery scenarios: every listed target.
DeliveryUpdates == {Update(1, st, <<>>, <<>>) : st \in OrderStatuses}

\* One call at a time, a creation and status updates, while time passes.
NextDelivery ==
  \/ \E body \in RaceBodies : StartCreate(1, body)
  \/ ReserveFind(1)
  \/ ReserveSave(1)
  \/ OrderSave(1)
  \/ RestoreFind(1)
  \/ RestoreSave(1)
  \/ \E r \in DeliveryUpdates : StartUpdate(1, r)
  \/ OrderFind(1)
  \/ CancelFind(1)
  \/ CancelSave(1)
  \/ StatusSave(1)
  \/ Tick
  \/ Finish(1)

SpecDelivery == Init /\ [][NextDelivery]_vars

\* Bodies and status updates of the frame scenarios: two orders, every listed
\* target for either, with and without tracking number and notes.
FrameBodies ==
  {Body(<<Item(1, 1)>>, Amount(90)), Body(<<Item(1, 1), Item(2, 1)>>, Amount(180))}

FrameUpdates ==
  {Update(id, st, <<>>, <<>>) : id \in 1..Cardinality(Calls), st \in OrderStatuses}
    \cup {Update(1, "Shipped", <<" ", "T">>, <<"n", " ">>)}

\* One call at a time over a store of up to two orders.
NextFrame ==
  \/ \E body \in FrameBodies : RaceCreate(1, body)
  \/ ReserveFind(1)
  \/ ReserveSave(1)
  \/ OrderSave(1)
  \/ RestoreFind(1)
  \/ RestoreSave(1)
  \/ \E r \in FrameUpdates : StartUpdate(1, r)
  \/ OrderFind(1)
  \/ CancelFind(1)
  \/ CancelSave(1)
  \/ StatusSave(1)
  \/ Finish(1)

SpecFrame == Init /\ [][NextFrame]_vars

\* A creation by call 1, which keeps its answer, and then status updates by
\* call 2, one at a time, with a store whose operations all succeed.
NextTrip ==
  \/ \E body \in StockBodies : StartCreate(1, body)
  \/ ReserveFind(1)
  \/ ReserveSave(1)
  \/ OrderSave(1)
  \/ RestoreFind(1)
  \/ RestoreSave(1)
  \/ pc[1] = "done" /\ \E r \in StockUpdates : StartUpdate(2, r)
  \/ OrderFind(2)
  \/ CancelFind(2)
  \/ CancelSave(2)
  \/ StatusSave(2)
  \/ Finish(2)

SpecTrip == InitNoFaults /\ [][NextTrip]_vars

\* Every product of the catalog holds MaxQty, and the store's operations all
\* succeed.
InitFull ==
  /\ products = [p \in ProductIds |-> CatalogProduct(MaxQty)]
  /\ InitCalls
  /\ faults = 0

\* One call at a time over the stock scenarios, from a full catalog.
SpecConserve == InitFull /\ [][NextSeq]_vars

\* Status updates of the mixed scenarios: the first order is cancelled or
\* shipped.
MixUpdates == {Update(1, st, <<>>, <<>>) : st \in {"Cancelled", "Shipped"}}

\* Any interleaving of the steps of two calls, creations of positive
\* quantities and status updates.
NextMix ==
  \E c \in Calls :
    \/ \E body \in OversellBodies : RaceCreate(c, body)
    \/ ReserveFind(c)
    \/ ReserveSave(c)
    \/ OrderSave(c)
    \/ RestoreFind(c)
    \/ RestoreSave(c)
    \/ \E r \in MixUpdates : StartUpdate(c, r)
    \/ OrderFind(c)
    \/ CancelFind(c)
    \/ CancelSave(c)
    \/ StatusSave(c)
    \/ Finish(c)

SpecMix == InitRace /\ [][NextMix]_vars

\* ------------------------------------------------------------------ claims

\* Calls that have answered.
CreateDone(c) == pc[c] = "done" /\ req[c].kind = "create"
UpdateDone(c) == pc[c] = "done" /\ req[c].kind = "update"

\* A creation that passed validateOrderInput and answered without an order.
CreateFailed(c) ==
  CreateDone(c) /\ validateOrderInput(req[c].body) = "next" /\ res[c].code # 201

\* Total quantity of product p in a cart.
RECURSIVE Ordered(_, _)
Ordered(items, p) ==
  IF items = <<>> THEN 0
  ELSE (IF Head(items)._id = p THEN Head(items).quantity ELSE 0)
         + Ordered(Tail(items), p)

\* status = Not Available iff quantity = 0
Coherent(p) == (p.status = "Not Available") <=> (p.quantity = 0)

\* C1: a creation that fails after validation, run alone, leaves every
\* product's quantity and status as they were before the call.
C1_FailedCreationLeavesStock ==
  \A c \in Calls : CreateFailed(c) => products = hist[c].products

\* C2: after a successful creation run alone, every product holds its pre-call
\* quantity less the quantity the cart orders of it, which is not negative, and
\* a product the cart does not name is unchanged.
C2_SuccessDecrementsStock ==
  \A c \in Calls :
    CreateDone(c) /\ res[c].code = 201 =>
      \A p \in DOMAIN products :
        /\ products[p].quantity >= 0
        /\ products[p].quantity =
             hist[c].products[p].quantity - Ordered(req[c].body.items, p)
        /\ (\A i \in 1..Len(req[c].body.items) : req[c].body.items[i]._id # p)
             => products[p] = hist[c].products[p]

\* A creation succeeded with a cart of two items of one product.
C2_Witness ==
  \E c \in Calls :
    /\ CreateDone(c) /\ res[c].code = 201
    /\ Len(req[c].body.items) = 2
    /\ req[c].body.items[1]._id = req[c].body.items[2]._id
    /\ req[c].body.items[1].quantity > 0 /\ req[c].body.items[2].quantity > 0

\* C3: the products start coherent (Init), and the workflow alone writes them:
\* every product the workflow has written is Not Available iff its quantity
\* is 0.
C3_StatusQuantityCoherent ==
  \A p \in DOMAIN products : Coherent(products[p])

\* C4: a status update that starts on an order persisted as Cancelled is
\* rejected for every listed target and writes nothing.
C4_CancelledIsTerminal ==
  \A c \in Calls :
    ( /\ UpdateDone(c)
      /\ req[c].status \in OrderStatuses
      /\ req[c].orderId \in 1..Len(hist[c].orders)
      /\ hist[c].orders[req[c].orderId].status = "Cancelled" )
    => res[c].code = 400 /\ ~hist[c].wrote

C6_UpdateAllOrNothing ==
  \A c \in Calls :
    UpdateDone(c) =>
      \/ /\ res[c].code = 200
         /\ orders[req[c].orderId].status = req[c].status
      \/ /\ products = hist[c].products
         /\ orders = hist[c].orders

\* The checks of C7 on a body, in the claim's words.
InvalidInput(body) ==
  \/ \E f \in {body.username, body.fullName, body.email, body.phone} : Trim(f) = <<>>
  \/ body.items = <<>>
  \/ body.totalAmount <= 0
  \/ \E f \in {body.address.street, body.address.city, body.address.state,
               body.address.postalCode} : f = <<>>
  \/ body.paymentMethod \notin {"Online", "COD"}
  \/ ~EmailRegexTest(body.email)
  \/ ~PhoneRegexTest(body.phone)

\* C7: a creation whose input is invalid is answered 400 without a read or a
\* write of the store.
C7_ValidationBeforeStore ==
  \A c \in Calls :
    CreateDone(c) /\ InvalidInput(req[c].body) =>
      /\ res[c].code = 400
      /\ ~hist[c].read /\ ~hist[c].wrote /\ ~hist[c].failed
      /\ products = hist[c].products /\ orders = hist[c].orders

\* A creation was answered 400 for its phone number.
C7_Witness ==
  \E c \in Calls :
    /\ CreateDone(c) /\ res[c].code = 400
    /\ res[c].message = "Invalid phone number format"

\* C8: when a creation run alone fails for insufficient stock of an item, with
\* every store operation succeeding, each product decremented before that
\* item holds its pre-call quantity and status again.
C8_PartialFailureRestored ==
  \A c \in Calls :
    ( /\ CreateFailed(c)
      /\ res[c].message = "Insufficient stock"
      /\ ~hist[c].failed )
    => \A i \in 1..hist[c].reserved :
         LET p == req[c].body.items[i]._id
         IN  products[p] = hist[c].products[p]


\* 100 times the sum over the items of price * quantity * (1 - offer / 100).
RECURSIVE ItemsTotal100(_)
ItemsTotal100(items) ==
  IF items = <<>> THEN 0
  ELSE Head(items).price * Head(items).quantity * (100 - Head(items).offer)
         + ItemsTotal100(Tail(items))

\* 100 times | sum over the items - totalAmount |
TotalGap100(body) == AbsInt(ItemsTotal100(body.items) - 100 * body.totalAmount)

\* A creation whose items all passed reservation, with no store failure.
Reserved(c) ==
  /\ CreateDone(c)
  /\ hist[c].reserved = Len(req[c].body.items)
  /\ ~hist[c].failed

\* C9 as claimed: with all items reserved, the creation succeeds iff the sum
\* over the items and the claimed total are at most 0.01 apart.
C9_TotalWithinToleranceIff ==
  \A c \in Calls :
    Reserved(c) => (res[c].code = 201 <=> TotalGap100(req[c].body) <= 100 * Tolerance)

\* C9 as amended: with all items reserved, the creation succeeds when the sum
\* and the claimed total are less than 0.01 apart and fails for the total when
\* they are more than 0.01 apart; for one item of price 100, quantity 2 and
\* offer 10 it succeeds with 180.00 and 180.005 and fails with 179.98.
C9_TotalOffTheBoundary ==
  \A c \in Calls :
    Reserved(c) =>
      LET body == req[c].body
          mismatch == /\ res[c].code = 400
                      /\ res[c].message = "Total amount calculation mismatch"
      IN  /\ TotalGap100(body) < 100 * Tolerance => res[c].code = 201
          /\ TotalGap100(body) > 100 * Tolerance => mismatch
          /\ body.items = <<[_id |-> 1, quantity |-> 2, price |-> Amount(100),
                             offer |-> 10]>>
               => /\ body.totalAmount = Amount(180) => res[c].code = 201
                  /\ body.totalAmount = Amount(180) + 1 => res[c].code = 201
                  /\ body.totalAmount = Amount(180) - 4 => mismatch

\* The creation of one item of price 100, quantity 2, offer 10 with the
\* claimed total 180.005 succeeded.
C9_Witness ==
  \E c \in Calls :
    /\ Reserved(c) /\ res[c].code = 201
    /\ req[c].body.items[1].quantity = 2
    /\ req[c].body.totalAmount = Amount(180) + 1

\* A listing that answered.
ListDone(c) == pc[c] = "done" /\ req[c].kind = "list" /\ res[c].code = 200

\* C10 as claimed: a listing by the submitted username returns every order
\* created for it with items, customer fields and status Pending exactly as
\* submitted.
C10_RoundTripExact ==
  \A c \in Calls :
    ListDone(c) =>
      \A k \in 1..Len(orders) :
        sent[k].username = req[c].username =>
          \E n \in 1..Len(res[c].orders) :
            LET o == res[c].orders[n]
            IN  /\ o.id = k
                /\ o.doc.items = sent[k].items
                /\ o.doc.username = sent[k].username
                /\ o.doc.fullName = sent[k].fullName
                /\ o.doc.email = sent[k].email
                /\ o.doc.phone = sent[k].phone
                /\ o.doc.address = sent[k].address
                /\ o.doc.paymentMethod = sent[k].paymentMethod
                /\ o.doc.status = "Pending"

\* C10 as amended: a listing by the trimmed username returns every order
\* created for it with items, address, payment method and status Pending as
\* submitted, username, fullName and phone as submitted less surrounding
\* blanks, and email as submitted in lower case.
C10_RoundTripNormalised ==
  \A c \in Calls :
    ListDone(c) =>
      \A k \in 1..Len(orders) :
        Trim(sent[k].username) = req[c].username =>
          \E n \in 1..Len(res[c].orders) :
            LET o == res[c].orders[n]
            IN  /\ o.id = k
                /\ o.doc.items = sent[k].items
                /\ o.doc.username = Trim(sent[k].username)
                /\ o.doc.fullName = Trim(sent[k].fullName)
                /\ o.doc.email = ToLowerCase(Trim(sent[k].email))
                /\ o.doc.phone = Trim(sent[k].phone)
                /\ o.doc.address = sent[k].address
                /\ o.doc.paymentMethod = sent[k].paymentMethod
                /\ o.doc.status = "Pending"

\* A listing returned an order whose email was submitted with a capital.
C10_Witness ==
  \E c \in Calls :
    /\ ListDone(c)
    /\ \E n \in 1..Len(res[c].orders) :
         sent[res[c].orders[n].id].email # res[c].orders[n].doc.email

\* C11: every order in the store of a creation-only run has status Pending and
\* a deliveryDate five days after its orderDate; the 201 response of a creation
\* carries the id of the order it added, whose orderDate lies within the call,
\* and that order's deliveryDate as the estimate.
C11_PendingWithEstimate ==
  /\ \A k \in 1..Len(orders) :
       /\ orders[k].status = "Pending"
       /\ orders[k].deliveryDate = orders[k].orderDate + DeliveryDays
  /\ \A c \in Calls :
       CreateDone(c) /\ res[c].code = 201 =>
         /\ Len(orders) = Len(hist[c].orders) + 1
         /\ res[c].orderId = Len(orders)
         /\ res[c].estimatedDelivery = orders[res[c].orderId].deliveryDate
         /\ orders[res[c].orderId].orderDate \in hist[c].at..now
         /\ res[c].estimatedDelivery = orders[res[c].orderId].orderDate + DeliveryDays

\* A creation that started at day 0 built its order at day 1 and answered 201.
C11_Witness ==
  \E c \in Calls :
    /\ CreateDone(c) /\ res[c].code = 201
    /\ hist[c].at = 0
    /\ orders[res[c].orderId].orderDate = 1
    /\ res[c].estimatedDelivery = 1 + DeliveryDays

\* The outcomes C12 lists for a status update that has answered: 200 with the
\* transition applied, 400 for a target that is not listed or an order already
\* Cancelled, 404 for an order id that is not found.
ListedOutcome(c) ==
  LET known == req[c].orderId \in 1..Len(hist[c].orders)
  IN  \/ /\ res[c].code = 200
         /\ known /\ req[c].status \in OrderStatuses
         /\ orders[req[c].orderId].status = req[c].status
      \/ /\ res[c].code = 400
         /\ \/ req[c].status \notin OrderStatuses
            \/ known /\ hist[c].orders[req[c].orderId].status = "Cancelled"
      \/ /\ res[c].code = 404
         /\ req[c].status \in OrderStatuses /\ ~known

\* C12 as claimed: every status update, run alone, ends with 200, 400 or 404
\* for the listed reasons and with no other outcome.
C12_OutcomesListed ==
  \A c \in Calls : UpdateDone(c) => ListedOutcome(c)

\* C12 as amended: every status update, run alone, ends with 200, 400 or 404
\* for the listed reasons, or with 500 when a store operation of the call
\* rejected; without such a rejection it ends with 200, 400 or 404.
C12_OutcomesWithInternalFailure ==
  \A c \in Calls :
    UpdateDone(c) =>
      /\ ListedOutcome(c) \/ (res[c].code = 500 /\ hist[c].failed)
      /\ ~hist[c].failed => res[c].code \in {200, 400, 404}
      /\ hist[c].failed => res[c].code = 500

\* A status update was answered 500 after Order.findById rejected.
C12_Witness ==
  \E c \in Calls :
    /\ UpdateDone(c) /\ res[c].code = 500
    /\ hist[c].failed /\ ~hist[c].read

\* Two creations that started from the same stock have both answered 201 for
\* more of product p than that stock held.
Oversold(p) ==
  /\ \A c \in Calls : CreateDone(c) /\ res[c].code = 201
  /\ \A c, d \in Calls :
       hist[c].products = hist[d].products /\ hist[c].orders = hist[d].orders
  /\ \A c, d \in Calls : c # d => res[c].orderId # res[d].orderId
  /\ \E c \in Calls :
       Ordered(req[1].body.items, p) + Ordered(req[2].body.items, p)
         > hist[c].products[p].quantity

\* C13: when two concurrent creations that read the same stock of a product
\* are both persisted for more than that stock, the product's final quantity
\* is the stock less the quantity of one of the two orders (the last save
\* wins), which is not the stock less the sum ordered.
C13_LostUpdateOversell ==
  \A p \in DOMAIN products :
    Oversold(p) =>
      LET pre == hist[1].products[p].quantity
          q1 == Ordered(req[1].body.items, p)
          q2 == Ordered(req[2].body.items, p)
      IN  /\ products[p].quantity \in {pre - q1, pre - q2}
          /\ products[p].quantity # pre - (q1 + q2)
          /\ Len(orders) = Len(hist[1].orders) + 2

\* Both orders are persisted although they order more of product 1 than it
\* held, and its quantity is not the stock less the sum ordered.
C13_Witness ==
  /\ Oversold(1)
  /\ res[1].orderId \in 1..Len(orders) /\ res[2].orderId \in 1..Len(orders)
  /\ products[1].quantity #
       hist[1].products[1].quantity
         - (Ordered(req[1].body.items, 1) + Ordered(req[2].body.items, 1))

\* The conditions of C14 on a cart item, against the store as it is.
ItemPasses(item) ==
  /\ item._id \in DOMAIN products
  /\ products[item._id].status = "Available"
  /\ products[item._id].quantity >= item.quantity
  /\ products[item._id].price = item.price
  /\ products[item._id].offer = item.offer

\* C14: a creation goes on from the lookup of an item to its decrement only
\* when the product exists, is Available, has at least the item's quantity and
\* has the item's price and offer at that moment; an item that fails sends the
\* call to its catch block, which persists no order and answers 400; and an
\* order is persisted only by a call whose items were all decremented.
C14_OrderOnlyIfAllItemsPass ==
  [][\A c \in Calls :
       /\ pc[c] = "reserveFind" /\ pc'[c] = "reserveSave"
            => ItemPasses(req[c].body.items[idx[c]])
       /\ ( /\ pc[c] = "reserveFind" /\ pc'[c] # "reserveFind"
            /\ ~ItemPasses(req[c].body.items[idx[c]]) )
            => pc'[c] = "restoreFind" /\ orders' = orders
       /\ pc[c] \in {"restoreFind", "restoreSave"} /\ pc'[c] # pc[c]
            => /\ orders' = orders
               /\ pc'[c] \in {"restoreFind", "restoreSave", "done"}
               /\ pc'[c] = "done" => res'[c].code = 400
       /\ pc[c] \in CreatePcs /\ Len(orders') > Len(orders)
            => /\ pc[c] = "orderSave"
               /\ hist[c].reserved = Len(req[c].body.items)
               /\ ~hist[c].failed
  ]_vars

\* A creation was answered 400 for a stale price or offer and left no order.
C14_Witness ==
  \E c \in Calls :
    /\ CreateDone(c) /\ res[c].code = 400
    /\ res[c].message = "Price or offer mismatch"
    /\ orders = hist[c].orders

\* C15: while a creation run alone is in its reservation loop at item i, the
\* store holds for every product its pre-call quantity less the quantities of
\* the items 1..i-1, which are the items whose decrement has been saved; an
\* item that fails is met with exactly the items before it decremented, and
\* from then on no decrement is saved and no quantity goes down.
C15_SequentialDurableReservation ==
  /\ [](\A c \in Calls :
          pc[c] \in {"reserveFind", "reserveSave"} =>
            /\ hist[c].reserved = idx[c] - 1
            /\ \A p \in DOMAIN products :
                 products[p].quantity =
                   hist[c].products[p].quantity
                     - Ordered(SubSeq(req[c].body.items, 1, idx[c] - 1), p))
  /\ [][\A c \in Calls :
          /\ pc[c] = "reserveSave" /\ pc'[c] = "reserveFind"
               => LET item == req[c].body.items[idx[c]]
                  IN  products'[item._id].quantity
                        = products[item._id].quantity - item.quantity
          /\ pc[c] \in {"restoreFind", "restoreSave"}
               => /\ hist'[c].reserved = hist[c].reserved
                  /\ \A p \in DOMAIN products :
                       products'[p].quantity >= products[p].quantity
     ]_vars

\* The second item of a cart failed for insufficient stock although the
\* product held enough before the call: it was checked against the quantity
\* the first item, of the same product, had left.
C15_Witness ==
  \E c \in Calls :
    /\ CreateDone(c) /\ res[c].message = "Insufficient stock"
    /\ hist[c].reserved = 1
    /\ Len(req[c].body.items) = 2
    /\ LET first == req[c].body.items[1]
           second == req[c].body.items[2]
       IN  /\ first._id = second._id /\ first.quantity > 0
           /\ second.quantity <= hist[c].products[second._id].quantity

\* A creation whose items all passed reservation and whose claimed total is
\* more than 0.01 off the sum over the items, with no store failure.
MismatchAfterReservation(c) ==
  Reserved(c) /\ TotalGap100(req[c].body) > 100 * Tolerance

\* C16: a creation run alone whose items all pass reservation and whose total
\* is off by more than 0.01 answers 400, persists no order and leaves every
\* product's quantity and status as before the call.
C16_MismatchLeavesStock ==
  \A c \in Calls :
    MismatchAfterReservation(c) =>
      /\ res[c].code = 400
      /\ orders = hist[c].orders
      /\ products = hist[c].products

\* The restorations attempted so far are those of the items 1..n in cart order.
AttemptedInOrder(c, n) ==
  /\ Len(hist[c].restores) = n
  /\ \A i \in 1..n : hist[c].restores[i].item = i

\* C17: a creation that fails after validation, run alone, has attempted one
\* restoration for every item of the cart in cart order before it answers,
\* whatever the outcome of each attempt, and answers 400 with the error that
\* made it fail, which no restoration changes.
C17_CompensationCoversCart ==
  /\ [](\A c \in Calls :
          /\ CreateFailed(c) =>
               /\ AttemptedInOrder(c, Len(req[c].body.items))
               /\ res[c].code = 400 /\ res[c].message = err[c]
          /\ pc[c] \in {"restoreFind", "restoreSave"} =>
               AttemptedInOrder(c, idx[c] - 1))
  /\ [][\A c \in Calls :
          pc[c] \in {"restoreFind", "restoreSave"} => err'[c] = err[c]]_vars

\* The restoration of the first of two items failed, the second item was
\* restored all the same, and the call reported the insufficient stock.
C17_Witness ==
  \E c \in Calls :
    /\ CreateFailed(c) /\ res[c].message = "Insufficient stock"
    /\ Len(hist[c].restores) = 2
    /\ hist[c].restores[1].outcome = "error"
    /\ hist[c].restores[2].outcome = "restored"

\* C18: a compensation step of a creation reads the product again and, when
\* it exists, saves it with the quantity just read plus the item's quantity,
\* and with status Available when that sum is > 0 and the status just read
\* otherwise; when the product does not exist the step changes nothing,
\* keeps the error and goes on to the next item or to the answer.
C18_RestorationRule ==
  [][\A c \in Calls :
       pc[c] = "restoreFind" /\ faults' = faults /\ pc'[c] # pc[c] =>
         LET item == req[c].body.items[idx[c]]
         IN  IF item._id \in DOMAIN products
               THEN LET p == products[item._id]
                        q == p.quantity + item.quantity
                    IN  /\ pc'[c] = "restoreSave"
                        /\ pdoc'[c].id = item._id /\ pdoc'[c].read = p
                        /\ pdoc'[c].cur.quantity = q
                        /\ pdoc'[c].cur.status = IF q > 0 THEN "Available" ELSE p.status
               ELSE /\ products' = products /\ err'[c] = err[c]
                    /\ hist'[c].restores[idx[c]].outcome = "skipped"
                    /\ IF idx[c] < Len(req[c].body.items)
                         THEN pc'[c] = "restoreFind" /\ idx'[c] = idx[c] + 1
                         ELSE pc'[c] = "done" /\ res'[c].code = 400
     ]_vars
  /\ [][\A c \in Calls :
          pc[c] = "restoreSave" /\ faults' = faults /\ pc'[c] # pc[c] =>
            /\ products'[pdoc[c].id].quantity = pdoc[c].cur.quantity
            /\ products'[pdoc[c].id].status = pdoc[c].cur.status
            /\ \A p \in DOMAIN products \ {pdoc[c].id} : products'[p] = products[p]
     ]_vars

\* A failed creation restored an item of quantity 0 of a sold-out product,
\* which stayed Not Available, and skipped an item whose product does not
\* exist.
C18_Witness ==
  \E c \in Calls :
    /\ CreateFailed(c)
    /\ Len(hist[c].restores) = 2
    /\ hist[c].restores[1].outcome = "restored"
    /\ hist[c].restores[2].outcome = "skipped"
    /\ req[c].body.items[1].quantity = 0
    /\ LET p == req[c].body.items[1]._id
       IN  products[p].quantity = 0 /\ products[p].status = "Not Available"

\* A cancellation, with no store failure, of an order that was not Cancelled
\* and has an item whose product did not exist when the call started.
CancelWithMissingProduct(c) ==
  /\ UpdateDone(c) /\ req[c].status = "Cancelled" /\ ~hist[c].failed
  /\ req[c].orderId \in 1..Len(hist[c].orders)
  /\ LET order == hist[c].orders[req[c].orderId]
     IN  /\ order.status # "Cancelled"
         /\ \E i \in 1..Len(order.items) :
              order.items[i]._id \notin DOMAIN hist[c].products

\* C19: a cancellation run alone of an order with an item whose product no
\* longer exists answers 200 and leaves the order Cancelled; no product is
\* created; every product that exists holds its pre-call quantity plus the
\* quantities of the order's items of it, and is Available if the order has
\* an item of it.
C19_MissingProductSkipped ==
  \A c \in Calls :
    CancelWithMissingProduct(c) =>
      LET items == hist[c].orders[req[c].orderId].items
      IN  /\ res[c].code = 200
          /\ orders[req[c].orderId].status = "Cancelled"
          /\ DOMAIN products = DOMAIN hist[c].products
          /\ \A p \in DOMAIN products :
               /\ products[p].quantity
                    = hist[c].products[p].quantity + Ordered(items, p)
               /\ (\E i \in 1..Len(items) : items[i]._id = p)
                    => products[p].status = "Available"

\* The product of the first item of a cancelled order did not exist, and the
\* product of its second item got its quantity back.
C19_Witness ==
  \E c \in Calls :
    /\ CancelWithMissingProduct(c) /\ res[c].code = 200
    /\ LET items == hist[c].orders[req[c].orderId].items
       IN  /\ Len(items) = 2
           /\ items[1]._id \notin DOMAIN products
           /\ items[2]._id \in DOMAIN products
           /\ products[items[2]._id].quantity
                = hist[c].products[items[2]._id].quantity + items[2].quantity
           /\ items[2].quantity > 0

\* A status update to a listed target of an order that exists, with no store
\* failure.
ListedUpdate(c) ==
  /\ UpdateDone(c) /\ ~hist[c].failed
  /\ req[c].status \in OrderStatuses
  /\ req[c].orderId \in 1..Len(hist[c].orders)

\* C20: a status update run alone of an order that is Pending, Processing,
\* Shipped or Delivered to any listed target answers 200 and leaves the order
\* with that target as its status; an update of a Cancelled order answers 400
\* and leaves the order as it was.
C20_AnyTransitionButFromCancelled ==
  \A c \in Calls :
    ListedUpdate(c) =>
      LET from == hist[c].orders[req[c].orderId].status
      IN  /\ from \in OrderStatuses
          /\ from # "Cancelled" =>
               /\ res[c].code = 200
               /\ orders[req[c].orderId].status = req[c].status
               /\ res[c].orders[1].doc.status = req[c].status
          /\ from = "Cancelled" =>
               /\ res[c].code = 400
               /\ orders = hist[c].orders

\* A Delivered order was moved back to Pending.
C20_Witness ==
  \E c \in Calls :
    /\ ListedUpdate(c) /\ res[c].code = 200
    /\ hist[c].orders[req[c].orderId].status = "Delivered"
    /\ req[c].status = "Pending"
    /\ orders[req[c].orderId].status = "Pending"

\* C21: a successful status update to Delivered leaves the order with a
\* deliveryDate within the call, in place of the one it had, and a successful
\* status update to another target leaves the deliveryDate as it was.
C21_DeliveredSetsDeliveryDate ==
  \A c \in Calls :
    UpdateDone(c) /\ res[c].code = 200 =>
      LET before == hist[c].orders[req[c].orderId]
          after == orders[req[c].orderId]
      IN  /\ req[c].status = "Delivered" =>
               /\ after.deliveryDate \in hist[c].at..now
               /\ res[c].orders[1].doc.deliveryDate = after.deliveryDate
          /\ req[c].status # "Delivered" =>
               after.deliveryDate = before.deliveryDate

\* An order with the estimate of its creation was Delivered at day 1.
C21_Witness ==
  \E c \in Calls :
    /\ UpdateDone(c) /\ res[c].code = 200 /\ req[c].status = "Delivered"
    /\ LET before == hist[c].orders[req[c].orderId]
       IN  before.deliveryDate = before.orderDate + DeliveryDays
    /\ orders[req[c].orderId].deliveryDate = 1

\* The targets C22 enumerates.
EnumeratedTargets == {"Pending", "Processing", "Shipped", "Delivered", "Cancelled"}

\* C22: a status update whose target is not enumerated is answered 400
\* "Invalid order status" whatever the order id and the order's status, with
\* no read and no write of the store and none of its operations called.
C22_UnlistedTargetRejectedFirst ==
  \A c \in Calls :
    UpdateDone(c) /\ req[c].status \notin EnumeratedTargets =>
      /\ res[c] = Reply(400, "Invalid order status")
      /\ ~hist[c].read /\ ~hist[c].wrote /\ ~hist[c].failed
      /\ products = hist[c].products /\ orders = hist[c].orders

\* An unlisted target was rejected for an order that is Cancelled.
C22_Witness ==
  \E c \in Calls :
    /\ UpdateDone(c) /\ req[c].status \notin EnumeratedTargets
    /\ res[c].code = 400
    /\ req[c].orderId \in 1..Len(orders)
    /\ orders[req[c].orderId].status = "Cancelled"

\* The fields of an order a status update is not to change.
FrameOf(order) ==
  [items |-> order.items, totalAmount |-> order.totalAmount,
   orderDate |-> order.orderDate, username |-> order.username,
   fullName |-> order.fullName, email |-> order.email, phone |-> order.phone,
   address |-> order.address, paymentMethod |-> order.paymentMethod]

\* C23: a status update run alone, whatever its outcome, adds and removes no
\* order, leaves every order but the addressed one as it was, leaves the
\* items, totalAmount, orderDate and customer fields of the addressed order as
\* they were, and leaves every product as it was unless its target is
\* Cancelled.
C23_StatusUpdateFrame ==
  \A c \in Calls :
    UpdateDone(c) =>
      /\ Len(orders) = Len(hist[c].orders)
      /\ \A k \in 1..Len(orders) :
           /\ k # req[c].orderId => orders[k] = hist[c].orders[k]
           /\ FrameOf(orders[k]) = FrameOf(hist[c].orders[k])
      /\ req[c].status # "Cancelled" => products = hist[c].products

\* The first of two orders was Shipped with a tracking number and notes.
C23_Witness ==
  \E c \in Calls :
    /\ UpdateDone(c) /\ res[c].code = 200 /\ req[c].status = "Shipped"
    /\ Len(orders) = 2 /\ req[c].orderId = 1
    /\ orders[1].trackingNumber # hist[c].orders[1].trackingNumber
    /\ orders[2].status # "Shipped"

\* Two status updates to Cancelled of one order that started from the same
\* store have both answered 200.
BothCancelled(c, d) ==
  /\ c # d
  /\ UpdateDone(c) /\ UpdateDone(d)
  /\ res[c].code = 200 /\ res[d].code = 200
  /\ req[c].status = "Cancelled" /\ req[d].status = "Cancelled"
  /\ req[c].orderId = req[d].orderId
  /\ hist[c].products = hist[d].products /\ hist[c].orders = hist[d].orders

\* C24: when two concurrent cancellations of one order have both answered,
\* every product holds the quantity it had when they started plus the order's
\* item quantities of it, once.
C24_RestoredOnce ==
  \A c, d \in Calls :
    BothCancelled(c, d) =>
      LET items == hist[c].orders[req[c].orderId].items
      IN  \A p \in DOMAIN products :
            products[p].quantity = hist[c].products[p].quantity + Ordered(items, p)

\* C25: once an order is persisted as Cancelled, no step of any call gives it
\* another status.
C25_CancelledAbsorbing ==
  [][\A k \in 1..Len(orders) :
       orders[k].status = "Cancelled" => orders'[k].status = "Cancelled"]_vars

\* Call c created an order and call d, after it, cancelled that order.
CreatedThenCancelled(c, d) ==
  /\ CreateDone(c) /\ res[c].code = 201
  /\ UpdateDone(d) /\ res[d].code = 200 /\ req[d].status = "Cancelled"
  /\ req[d].orderId = res[c].orderId

\* C26: after a successful creation and, with nothing but successful status
\* updates of that order in between, its successful cancellation, every
\* product an item of the cart names has the quantity and the status it had
\* before the creation.
C26_CreateCancelRoundTrip ==
  \A c, d \in Calls :
    CreatedThenCancelled(c, d) =>
      \A i \in 1..Len(req[c].body.items) :
        LET p == req[c].body.items[i]._id
        IN  /\ products[p].quantity = hist[c].products[p].quantity
            /\ products[p].status = hist[c].products[p].status

\* An order that had sold a product out was Delivered and then Cancelled,
\* and the product is in stock again.
C26_Witness ==
  \E c, d \in Calls :
    /\ CreatedThenCancelled(c, d)
    /\ hist[d].orders[req[d].orderId].status = "Delivered"
    /\ \E i \in 1..Len(req[c].body.items) :
         LET p == req[c].body.items[i]._id
         IN  /\ hist[d].products[p].status = "Not Available"
             /\ products[p].status = "Available"
             /\ products[p].quantity > 0

\* The quantity of product p that the orders 1..k hold, the Cancelled ones
\* left out.
RECURSIVE Held(_, _)
Held(p, k) ==
  IF k = 0 THEN 0
  ELSE (IF orders[k].status # "Cancelled" THEN Ordered(orders[k].items, p) ELSE 0)
         + Held(p, k - 1)

\* C27: between the calls of a run of one call at a time, every product's
\* quantity plus the quantity of it that the orders not Cancelled hold is the
\* quantity the product started with.
C27_StockConserved ==
  (\A c \in Calls : pc[c] \in {"idle", "done"}) =>
    \A p \in DOMAIN products :
      products[p].quantity + Held(p, Len(orders)) = MaxQty

\* C28: with carts of positive quantities and products that start with a
\* quantity >= 0, no interleaving of creations, their compensation and status
\* updates gives a product a negative quantity, in the store or in a document a
\* call is about to save.
C28_QuantityNeverNegative ==
  /\ \A p \in DOMAIN products : products[p].quantity >= 0
  /\ \A c \in Calls : pdoc[c].cur.quantity >= 0

\* Two creations that read the same stock of product 1 were both persisted
\* for more than it held, each saving the quantity it computed from its own
\* read, and the product is left with quantity 0.
C28_Witness ==
  /\ Oversold(1)
  /\ products[1].quantity = 0
  /\ products[1].status = "Not Available"

====
